---- MODULE Spec2Model ----
(***************************************************************************)
(* A model of gtfslib/model.py: the in-memory GTFS entities, the           *)
(* CalendarDate value (construction, parsing, comparison, hashing, range   *)
(* generation), StopTime ordering and identity, and Trip.hops().           *)
(*                                                                         *)
(* Python values are modelled as follows.  A datetime.date is a record     *)
(* [year, month, day]; a str is a sequence of one-character strings; a     *)
(* call that raises is the record [ok |-> FALSE, err |-> <exception>], a   *)
(* call that returns v is [ok |-> TRUE, val |-> v]; an object is a record  *)
(* or a function from attribute names to values.                           *)
(***************************************************************************)
EXTENDS Integers, Sequences, FiniteSets, TLC

VARIABLES
    gens,       \* generator objects returned by CalendarDate.range, by id
    cdA, cdB,   \* two CalendarDate objects (None before construction)
    cdOp,       \* the last CalendarDate operation: its operand and outcome
    stA, stB,   \* two StopTime objects (None before construction)
    stOp,       \* the last StopTime operation and its outcome
    trip,       \* a Trip object with its attached stop_times (or None)
    hopsOut,    \* what the last Trip.hops() call returned (or None)
    ctor        \* the last entity constructor call and its outcome

vars == <<gens, cdA, cdB, cdOp, stA, stB, stOp, trip, hopsOut, ctor>>

\* Python's None, and an attribute or local that is not bound at all
None == [kind |-> "None"]
Unset == [kind |-> "unset"]

Ok(v) == [ok |-> TRUE, val |-> v]
Raise(e) == [ok |-> FALSE, err |-> e]

-----------------------------------------------------------------------------
(* Bounds of the model *)

YearSpan == 2       \* the model's dates lie in 2019 .. 2019 + YearSpan
MaxSpan == 3        \* range(start, end): end within MaxSpan days of start
MaxPasses == 2      \* how often a returned generator is iterated to its end
MaxStops == 3       \* longest stop_times sequence attached to a Trip

Years == 2019 .. (2019 + YearSpan)

-----------------------------------------------------------------------------
(* datetime.date, as the standard library computes it *)

IsLeap(y) == y % 4 = 0 /\ (y % 100 # 0 \/ y % 400 = 0)

DaysInMonth(y, m) ==
    IF m = 2 THEN (IF IsLeap(y) THEN 29 ELSE 28)
    ELSE IF m \in {4, 6, 9, 11} THEN 30 ELSE 31

RECURSIVE DaysBeforeMonth(_, _)
DaysBeforeMonth(y, m) ==
    IF m <= 1 THEN 0 ELSE DaysBeforeMonth(y, m - 1) + DaysInMonth(y, m - 1)

DaysBeforeYear(y) ==
    (y - 1) * 365 + ((y - 1) \div 4) - ((y - 1) \div 100) + ((y - 1) \div 400)

\* date.toordinal()
ToOrdinal(d) == DaysBeforeYear(d.year) + DaysBeforeMonth(d.year, d.month) + d.day

Date(y, m, d) == [year |-> y, month |-> m, day |-> d]

IsValidYMD(y, m, d) ==
    /\ y \in 1..9999
    /\ m \in 1..12
    /\ d \in 1..DaysInMonth(y, m)

\* datetime.date(year, month, day): ValueError on an invalid triple
datetime_date(y, m, d) ==
    IF IsValidYMD(y, m, d) THEN Ok(Date(y, m, d)) ELSE Raise("ValueError")

\* date < date and date == date compare the (year, month, day) triples
DateLt(a, b) ==
    \/ a.year < b.year
    \/ a.year = b.year /\ a.month < b.month
    \/ a.year = b.year /\ a.month = b.month /\ a.day < b.day

DateEq(a, b) == a.year = b.year /\ a.month = b.month /\ a.day = b.day

\* date + timedelta(days=1)
DatePlusOne(d) ==
    IF d.day < DaysInMonth(d.year, d.month) THEN Date(d.year, d.month, d.day + 1)
    ELSE IF d.month < 12 THEN Date(d.year, d.month + 1, 1)
    ELSE Date(d.year + 1, 1, 1)

\* date + timedelta(days=n), n >= 0
RECURSIVE DatePlusDays(_, _)
DatePlusDays(d, n) == IF n <= 0 THEN d ELSE DatePlusDays(DatePlusOne(d), n - 1)

AllDates ==
    { Date(y, m, d) : y \in Years, m \in 1..12, d \in 1..31 }

ValidDates == { d \in AllDates : IsValidYMD(d.year, d.month, d.day) }

-----------------------------------------------------------------------------
(* CalendarDate *)

\* CalendarDate.__init__: feed_id is None, service_id is not set at all
CalendarDate_init(date) ==
    [kind |-> "CalendarDate", date |-> date, feed_id |-> None, service_id |-> Unset]

\* CalendarDate.ymd
CalendarDate_ymd(y, m, d) ==
    LET r == datetime_date(y, m, d)
    IN  IF r.ok THEN Ok(CalendarDate_init(r.val)) ELSE r

\* CalendarDate.next_day(ndays=1)
next_day(self) == CalendarDate_init(DatePlusDays(self.date, 1))

\* a loop test that lets the end date through
RangeCondInclusive(cursor, end) ==
    DateLt(cursor.date, end.date) \/ DateEq(cursor.date, end.date)

\* the loop test of CalendarDate.range: cursor < end, both CalendarDate
\* (CalendarDate.__lt__ through _coerce's CalendarDate branch)
RangeCond(cursor, end) == DateLt(cursor.date, end.date)

\* The generator object a call range(start, end) returns.  Calling a
\* generator function runs none of its body: the frame is created with
\* its arguments bound and cursor not yet assigned.
\*   passes: how many times a consumer has iterated it to StopIteration
\*   cur:    the values yielded to the consumer's current iteration
\*   log:    the values each finished iteration received
NewGenerator(start, end) ==
    [kind |-> "generator", start |-> start, end |-> end, pc |-> "created",
     cursor |-> Unset, passes |-> 0, cur |-> <<>>, log |-> <<>>]

\* StopIteration reaches the consumer: its iteration is over
GenStop(g) ==
    [g EXCEPT !.pc = "done", !.passes = @ + 1, !.log = Append(@, g.cur), !.cur = <<>>]

\* the generator runs from the top of the while loop with `c` as cursor
GenLoop(g, c) ==
    IF RangeCond(c, g.end)
    THEN [g EXCEPT !.pc = "suspended", !.cursor = c, !.cur = Append(@, c)]
    ELSE GenStop([g EXCEPT !.cursor = c])

\* a generator that starts over once it has been exhausted
GenStepRestarting(g) ==
    IF g.pc = "suspended" THEN GenLoop(g, next_day(g.cursor))
    ELSE GenLoop(g, g.start)

\* next(g): resume the generator's frame until its next yield or its return
GenStep(g) ==
    IF g.pc = "created" THEN GenLoop(g, g.start)
    ELSE IF g.pc = "suspended" THEN GenLoop(g, next_day(g.cursor))
    ELSE GenStop(g)

-----------------------------------------------------------------------------
(* Specification of CalendarDate.range and the generators it returns *)

GenIds == {"g1", "g2"}

\* start dates around month ends, a leap day and a year end
StartDates ==
    { d \in { Date(y, m, dd) : y \in {2019, 2020}, m \in {2, 12}, dd \in 28..31 } :
        /\ IsValidYMD(d.year, d.month, d.day)
        /\ d.month = 12 => d.day >= 30 }

\* the dates at most MaxSpan days before or after s
Near(s) ==
    { e \in { Date(y, m, d) : y \in {s.year, s.year + 1},
                              m \in {s.month - 1, s.month, s.month + 1, 1},
                              d \in 1..31 } :
        /\ IsValidYMD(e.year, e.month, e.day)
        /\ ToOrdinal(e) - ToOrdinal(s) <= MaxSpan
        /\ ToOrdinal(s) - ToOrdinal(e) <= MaxSpan }

NoOther ==
    /\ cdA = None /\ cdB = None /\ cdOp = None
    /\ stA = None /\ stB = None /\ stOp = None
    /\ trip = None /\ hopsOut = None /\ ctor = None

InitRange ==
    /\ gens = [g \in GenIds |-> None]
    /\ NoOther

\* g = CalendarDate.range(start, end)
CallRange(id) ==
    /\ gens[id] = None
    /\ \E s \in StartDates : \E e \in Near(s) :
          gens' = [gens EXCEPT ![id] =
                      NewGenerator(CalendarDate_init(s), CalendarDate_init(e))]
    /\ UNCHANGED <<cdA, cdB, cdOp, stA, stB, stOp, trip, hopsOut, ctor>>

\* a consumer of generator id asks it for its next value
GenNext(id) ==
    /\ gens[id] # None
    /\ gens[id].passes < MaxPasses
    /\ gens' = [gens EXCEPT ![id] = GenStep(gens[id])]
    /\ UNCHANGED <<cdA, cdB, cdOp, stA, stB, stOp, trip, hopsOut, ctor>>

NextRange == \E id \in GenIds : CallRange(id) \/ GenNext(id)

SpecRange == InitRange /\ [][NextRange]_vars

-----------------------------------------------------------------------------
(* Properties of CalendarDate.range *)

Called == { id \in GenIds : gens[id].kind = "generator" }

\* (end - start).days when positive, else 0
RangeLen(g) ==
    LET n == ToOrdinal(g.end.date) - ToOrdinal(g.start.date)
    IN  IF n > 0 THEN n ELSE 0

\* out holds CalendarDate values for start, start + 1 day, ..., in order,
\* all of them before end
IsRangePrefix(g, out) ==
    \A i \in 1..Len(out) :
        /\ out[i].kind = "CalendarDate"
        /\ IsValidYMD(out[i].date.year, out[i].date.month, out[i].date.day)
        /\ ToOrdinal(out[i].date) = ToOrdinal(g.start.date) + (i - 1)
        /\ ToOrdinal(out[i].date) < ToOrdinal(g.end.date)

\* everything the first iteration of g has received so far
FirstPass(g) == IF g.passes >= 1 THEN g.log[1] ELSE g.cur

IsPrefixOf(s, u) == Len(s) <= Len(u) /\ \A i \in 1..Len(s) : s[i] = u[i]

\* C1: consuming range(start, end) yields start, start + 1 day, ... in
\* ascending order, every value before end, never more than
\* (end - start).days of them (so the consumption ends), and once consumed
\* to the end exactly (end - start).days values, or none when end <= start.
C1_RangeYieldsHalfOpenInterval ==
    \A id \in Called :
        LET g == gens[id]
        IN  /\ IsRangePrefix(g, FirstPass(g))
            /\ Len(FirstPass(g)) <= RangeLen(g)
            /\ g.passes >= 1 => Len(g.log[1]) = RangeLen(g)
            /\ g.pc = "suspended" => Len(g.cur) >= 1

\* C1 witness: one range consumed to its end across a leap day, another
\* with end before start consumed to its end
C1_Witness ==
    /\ Called = GenIds
    /\ gens["g1"].passes >= 1
    /\ Len(gens["g1"].log[1]) = 3
    /\ gens["g1"].log[1][2].date = Date(2020, 2, 29)
    /\ gens["g2"].passes >= 1
    /\ DateLt(gens["g2"].end.date, gens["g2"].start.date)

\* C2 as stated: iterating a returned sequence a second time yields the
\* same dates as the first time.
C2_RangeReusable ==
    \A id \in Called :
        \A k \in 2..gens[id].passes : gens[id].log[k] = gens[id].log[1]

\* C2 amended: a returned sequence is single-use, every iteration after
\* the first one that reached its end yields nothing; the first iteration
\* yields start up to but excluding end, and two sequences returned by
\* separate calls with the same arguments yield the same values however
\* their consumption is interleaved.
C2_RangeSingleUse ==
    /\ \A id \in Called :
          LET g == gens[id]
          IN  /\ \A k \in 2..g.passes : g.log[k] = <<>>
              /\ g.passes >= 1 =>
                    /\ IsRangePrefix(g, g.log[1])
                    /\ Len(g.log[1]) = RangeLen(g)
              /\ g.passes >= 1 => g.cur = <<>>
    /\ \A i, j \in Called :
          (gens[i].start = gens[j].start /\ gens[i].end = gens[j].end) =>
              \/ IsPrefixOf(FirstPass(gens[i]), FirstPass(gens[j]))
              \/ IsPrefixOf(FirstPass(gens[j]), FirstPass(gens[i]))

\* C2 witness: g1 was iterated to its end twice and yielded dates the
\* first time, while g2, returned by another call, is part-way
C2_Witness ==
    /\ Called = GenIds
    /\ gens["g1"].passes = 2
    /\ Len(gens["g1"].log[1]) >= 2
    /\ gens["g2"].pc = "suspended"
    /\ gens["g2"].passes = 0

-----------------------------------------------------------------------------
(* Python str and int(), for the two textual date formats *)

Digits == <<"0", "1", "2", "3", "4", "5", "6", "7", "8", "9">>

IsDigit(c) == \E i \in 1..10 : Digits[i] = c

DigitValue(c) == (CHOOSE i \in 1..10 : Digits[i] = c) - 1

\* a str value
Str(chars) == [kind |-> "str", chars |-> chars]

\* "%0<w>d" % n, n >= 0
RECURSIVE ZeroPad(_, _)
ZeroPad(n, w) ==
    IF w <= 1 /\ n < 10 THEN <<Digits[n + 1]>>
    ELSE Append(ZeroPad(n \div 10, w - 1), Digits[(n % 10) + 1])

\* date.isoformat(): 'YYYY-MM-DD'
IsoFormat(d) == ZeroPad(d.year, 4) \o <<"-">> \o ZeroPad(d.month, 2) \o <<"-">> \o ZeroPad(d.day, 2)

\* '%04d%02d%02d': 'YYYYMMDD'
CompactFormat(d) == ZeroPad(d.year, 4) \o ZeroPad(d.month, 2) \o ZeroPad(d.day, 2)

\* s[i:j] for 0 <= i <= j: a slice is clipped to the string, never an error
Slice(s, i, j) == SubSeq(s, i + 1, IF j < Len(s) THEN j ELSE Len(s))

\* s.strip() for the whitespace character ' '
RECURSIVE LStrip(_)
LStrip(s) == IF s # <<>> /\ Head(s) = " " THEN LStrip(Tail(s)) ELSE s

RECURSIVE RStrip(_)
RStrip(s) ==
    IF s # <<>> /\ s[Len(s)] = " " THEN RStrip(SubSeq(s, 1, Len(s) - 1)) ELSE s

RECURSIVE DigitsValue(_)
DigitsValue(s) ==
    IF s = <<>> THEN 0
    ELSE DigitsValue(SubSeq(s, 1, Len(s) - 1)) * 10 + DigitValue(s[Len(s)])

\* int(s): surrounding whitespace and one leading sign are accepted, then
\* one or more decimal digits; anything else is a ValueError.  (Of the
\* whitespace characters only ' ' occurs in the strings of this model, and
\* no '_' digit separator does.)
int(s) ==
    LET t == RStrip(LStrip(s))
        signed == t # <<>> /\ Head(t) \in {"+", "-"}
        body == IF signed THEN Tail(t) ELSE t
    IN  IF body = <<>> \/ \E i \in 1..Len(body) : ~IsDigit(body[i])
        THEN Raise("ValueError")
        ELSE Ok(IF signed /\ Head(t) = "-" THEN 0 - DigitsValue(body)
                ELSE DigitsValue(body))

\* s.split("-"): the list of the pieces between the separators
RECURSIVE SplitDash(_, _)
SplitDash(s, piece) ==
    IF s = <<>> THEN <<piece>>
    ELSE IF Head(s) = "-" THEN <<piece>> \o SplitDash(Tail(s), <<>>)
    ELSE SplitDash(Tail(s), Append(piece, Head(s)))

-----------------------------------------------------------------------------
(* CalendarDate: parsing, coercion, comparison, hashing *)

\* CalendarDate.fromYYYYMMDD(yyyymmdd), yyyymmdd a list of characters
CalendarDate_fromYYYYMMDD(s) ==
    LET y == int(Slice(s, 0, 4))
        m == int(Slice(s, 4, 6))
        d == int(Slice(s, 6, 8))
    IN  IF ~y.ok THEN y
        ELSE IF ~m.ok THEN m
        ELSE IF ~d.ok THEN d
        ELSE CalendarDate_ymd(y.val, m.val, d.val)

\* a _coerce that reads a string as year-day-month
coerceDayMonthSwapped(other) ==
    IF other.kind = "str" THEN
        LET ymd == SplitDash(other.chars, <<>>)
        IN  IF Len(ymd) < 3 THEN Raise("IndexError")
            ELSE LET y == int(ymd[1])
                     m == int(ymd[3])
                     d == int(ymd[2])
                 IN  IF ~y.ok THEN y ELSE IF ~m.ok THEN m ELSE IF ~d.ok THEN d
                     ELSE datetime_date(y.val, m.val, d.val)
    ELSE IF other.kind = "date" THEN Ok(other.date)
    ELSE IF other.kind = "CalendarDate" THEN Ok(other.date)
    ELSE Raise("ValueError")

\* CalendarDate._coerce(other): the datetime.date other stands for
coerce(other) ==
    IF other.kind = "str" THEN
        LET ymd == SplitDash(other.chars, <<>>)
        IN  IF Len(ymd) < 3 THEN Raise("IndexError")
            ELSE LET y == int(ymd[1])
                     m == int(ymd[2])
                     d == int(ymd[3])
                 IN  IF ~y.ok THEN y ELSE IF ~m.ok THEN m ELSE IF ~d.ok THEN d
                     ELSE datetime_date(y.val, m.val, d.val)
    ELSE IF other.kind = "date" THEN Ok(other.date)
    ELSE IF other.kind = "CalendarDate" THEN Ok(other.date)
    ELSE Raise("ValueError")

\* CalendarDate.__lt__
CalendarDate_lt(self, other) ==
    LET c == coerce(other) IN IF c.ok THEN Ok(DateLt(self.date, c.val)) ELSE c

\* an __eq__ that also compares the feed and service a date belongs to
CalendarDate_eqWithIds(self, other) ==
    LET c == coerce(other)
    IN  IF ~c.ok THEN c
        ELSE IF other.kind = "CalendarDate"
        THEN Ok(/\ DateEq(self.date, c.val)
                /\ self.feed_id = other.feed_id
                /\ self.service_id = other.service_id)
        ELSE Ok(DateEq(self.date, c.val))

\* CalendarDate.__eq__
CalendarDate_eq(self, other) ==
    LET c == coerce(other) IN IF c.ok THEN Ok(DateEq(self.date, c.val)) ELSE c

\* CalendarDate.__ne__
CalendarDate_ne(self, other) ==
    LET c == coerce(other) IN IF c.ok THEN Ok(~DateEq(self.date, c.val)) ELSE c

\* a hash that gives a year 366 slots
CalendarDate_hashYear366(self) ==
    self.date.year * 366 + self.date.month * 32 + self.date.day

\* CalendarDate.__hash__
CalendarDate_hash(self) ==
    self.date.year * 384 + self.date.month * 32 + self.date.day

-----------------------------------------------------------------------------
(* Specification of CalendarDate comparison and hashing *)

SampleDates ==
    { Date(2019, 12, 31), Date(2020, 1, 1), Date(2020, 1, 15),
      Date(2020, 2, 29), Date(2020, 11, 5) }

FeedIds == { Str(<<"F", "1">>), Str(<<"F", "2">>) }
ServiceIds == { Str(<<"S", "1">>) }

\* the last operation on CalendarDate values; denotes is the date the
\* operand was written down from (None when it stands for no date)
DateOp(op, self, other, denotes, res) ==
    [kind |-> "op", op |-> op, self |-> self, other |-> other,
     denotes |-> denotes, res |-> res]

InitDate ==
    /\ gens = [g \in GenIds |-> None]
    /\ NoOther

\* a = CalendarDate.ymd(y, m, d) for a date of D
ConstructA(D) ==
    /\ \E d \in D : cdA' = CalendarDate_ymd(d.year, d.month, d.day).val
    /\ cdOp' = None
    /\ UNCHANGED <<gens, cdB, stA, stB, stOp, trip, hopsOut, ctor>>

\* b = CalendarDate.ymd(y, m, d)
ConstructB ==
    /\ \E d \in SampleDates : cdB' = CalendarDate_ymd(d.year, d.month, d.day).val
    /\ cdOp' = None
    /\ UNCHANGED <<gens, cdA, stA, stB, stOp, trip, hopsOut, ctor>>

\* a.feed_id = f; a.service_id = s, as a loader does after construction
AssignIdsA ==
    /\ cdA.kind = "CalendarDate"
    /\ \E f \in FeedIds, s \in ServiceIds :
          cdA' = [cdA EXCEPT !.feed_id = f, !.service_id = s]
    /\ cdOp' = None
    /\ UNCHANGED <<gens, cdB, stA, stB, stOp, trip, hopsOut, ctor>>

AssignIdsB ==
    /\ cdB.kind = "CalendarDate"
    /\ \E f \in FeedIds, s \in ServiceIds :
          cdB' = [cdB EXCEPT !.feed_id = f, !.service_id = s]
    /\ cdOp' = None
    /\ UNCHANGED <<gens, cdA, stA, stB, stOp, trip, hopsOut, ctor>>

\* the operands a is compared with, each with the date it denotes
Operands ==
    (IF cdB.kind = "CalendarDate" THEN { <<cdB, cdB.date>> } ELSE {})
    \cup { <<[kind |-> "date", date |-> d], d>> : d \in SampleDates }
    \cup { <<Str(IsoFormat(d)), d>> : d \in SampleDates }
    \cup { <<[kind |-> "int", val |-> 5], None>>, <<None, None>> }

ApplyCompare(op, self, other) ==
    IF op = "eq" THEN CalendarDate_eq(self, other)
    ELSE IF op = "ne" THEN CalendarDate_ne(self, other)
    ELSE CalendarDate_lt(self, other)

\* a == x, a != x, a < x
Compare ==
    /\ cdA.kind = "CalendarDate"
    /\ \E op \in {"eq", "ne", "lt"}, x \in Operands :
          cdOp' = DateOp(op, cdA, x[1], x[2], ApplyCompare(op, cdA, x[1]))
    /\ UNCHANGED <<gens, cdA, cdB, stA, stB, stOp, trip, hopsOut, ctor>>

\* hash(a), hash(b)
HashBoth ==
    /\ cdA.kind = "CalendarDate" /\ cdB.kind = "CalendarDate"
    /\ cdOp' = DateOp("hash", cdA, cdB, cdB.date,
                      Ok(<<CalendarDate_hash(cdA), CalendarDate_hash(cdB)>>))
    /\ UNCHANGED <<gens, cdA, cdB, stA, stB, stOp, trip, hopsOut, ctor>>

NextDate ==
    \/ ConstructA(SampleDates)
    \/ ConstructB
    \/ AssignIdsA
    \/ AssignIdsB
    \/ Compare
    \/ HashBoth

SpecDate == InitDate /\ [][NextDate]_vars

\* C6: two CalendarDate values holding the same date are equal and have the
\* same hash, year*384 + month*32 + day, whatever feed_id and service_id
\* each carries; two holding different dates are not equal.
C6_EqualityAndHashByDateAlone ==
    /\ (cdOp.kind = "None" \/ cdOp.op # "eq" \/ cdOp.other.kind # "CalendarDate")
          \/ cdOp.res = Ok(DateEq(cdOp.self.date, cdOp.other.date))
    /\ (cdOp.kind = "None" \/ cdOp.op # "hash")
          \/ /\ cdOp.res.val[1] = cdOp.self.date.year * 384
                                   + cdOp.self.date.month * 32 + cdOp.self.date.day
             /\ DateEq(cdOp.self.date, cdOp.other.date)
                   => cdOp.res.val[1] = cdOp.res.val[2]

\* C6 witness: a == b answered True for the same date under different
\* feed_id and service_id
C6_Witness ==
    /\ cdOp.kind # "None"
    /\ cdOp.op = "eq"
    /\ cdOp.other.kind = "CalendarDate"
    /\ DateEq(cdOp.self.date, cdOp.other.date)
    /\ cdOp.self.feed_id # cdOp.other.feed_id
    /\ cdOp.self.service_id # cdOp.other.service_id
    /\ cdOp.res = Ok(TRUE)

ExpectedCompare(op, d, e) ==
    IF op = "eq" THEN DateEq(d, e)
    ELSE IF op = "ne" THEN ~DateEq(d, e)
    ELSE ToOrdinal(d) < ToOrdinal(e)

\* C7: ==, != and < against a CalendarDate, a native date or a
\* 'YYYY-MM-DD' string give the comparison of the two dates; against any
\* other operand the comparison raises.
C7_CompareCoercesOrRaises ==
    (cdOp.kind = "None" \/ cdOp.op \notin {"eq", "ne", "lt"})
    \/ IF cdOp.other.kind \in {"CalendarDate", "date", "str"}
       THEN cdOp.res = Ok(ExpectedCompare(cdOp.op, cdOp.self.date, cdOp.denotes))
       ELSE ~cdOp.res.ok

\* C7 witness: a compared equal to the string form of its own date
C7_Witness ==
    /\ cdOp.kind # "None"
    /\ cdOp.op = "eq"
    /\ cdOp.other.kind = "str"
    /\ cdOp.other.chars = <<"2", "0", "2", "0", "-", "0", "1", "-", "1", "5">>
    /\ cdOp.self.date = Date(2020, 1, 15)
    /\ cdOp.res = Ok(TRUE)

-----------------------------------------------------------------------------
(* Specification of CalendarDate hashing over every date of the model's years *)

\* hash(a)
HashOne ==
    /\ cdA.kind = "CalendarDate"
    /\ cdOp' = DateOp("hash1", cdA, None, None, Ok(CalendarDate_hash(cdA)))
    /\ UNCHANGED <<gens, cdA, cdB, stA, stB, stOp, trip, hopsOut, ctor>>

NextHash == ConstructA(ValidDates) \/ AssignIdsA \/ HashOne

SpecHash == InitDate /\ [][NextHash]_vars

\* C10: no CalendarDate with month in 1..12 and day in 1..31 other than
\* one holding the same (year, month, day) has the same hash.
C10_HashInjectiveOnCalendarDates ==
    (cdOp.kind = "None" \/ cdOp.op # "hash1")
    \/ \A x \in AllDates :
          CalendarDate_hash(CalendarDate_init(x)) = cdOp.res.val
              => x = cdOp.self.date

\* C10 witness: a date hashed whose month*32 + day exceeds 384
C10_Witness ==
    /\ cdOp.kind # "None"
    /\ cdOp.op = "hash1"
    /\ cdOp.self.date.month * 32 + cdOp.self.date.day > 384
    /\ cdOp.res.val = cdOp.self.date.year * 384 + 415

-----------------------------------------------------------------------------
(* Specification of CalendarDate.fromYYYYMMDD *)

EditChars == {"0", "5", " ", "x", "+"}

\* s, and s with one character replaced, inserted or deleted
Edits(s) ==
    {s}
    \cup { [s EXCEPT ![i] = c] : i \in 1..Len(s), c \in EditChars }
    \cup { SubSeq(s, 1, i) \o <<c>> \o SubSeq(s, i + 1, Len(s)) :
              i \in 0..Len(s), c \in EditChars }
    \cup { SubSeq(s, 1, i - 1) \o SubSeq(s, i + 1, Len(s)) : i \in 1..Len(s) }

ParseInputs == UNION { Edits(CompactFormat(d)) : d \in SampleDates }

\* CalendarDate.fromYYYYMMDD(s), the value or the exception it ends with
FromYYYYMMDD ==
    /\ \E s \in ParseInputs :
          cdOp' = DateOp("fromYYYYMMDD", None, Str(s), None,
                         CalendarDate_fromYYYYMMDD(s))
    /\ UNCHANGED <<gens, cdA, cdB, stA, stB, stOp, trip, hopsOut, ctor>>

NextParse == FromYYYYMMDD

SpecParse == InitDate /\ [][NextParse]_vars

AllDigits(s) == \A i \in 1..Len(s) : IsDigit(s[i])

\* C8: fromYYYYMMDD(s) returns a value only for s of exactly 8 decimal
\* digits naming a valid date, that value being ymd(y, m, d) for the digits;
\* it raises for every s that is not 8 characters long or holds a non-digit.
C8_FromYYYYMMDDOnlyEightDigits ==
    (cdOp.kind = "None" \/ cdOp.op # "fromYYYYMMDD")
    \/ LET s == cdOp.other.chars
       IN  /\ cdOp.res.ok =>
                /\ Len(s) = 8
                /\ AllDigits(s)
                /\ cdOp.res = CalendarDate_ymd(DigitsValue(SubSeq(s, 1, 4)),
                                               DigitsValue(SubSeq(s, 5, 6)),
                                               DigitsValue(SubSeq(s, 7, 8)))
           /\ (Len(s) # 8 \/ ~AllDigits(s)) => ~cdOp.res.ok

-----------------------------------------------------------------------------
(* Entity constructors *)

\* Python's binding of a call's named arguments kw to a signature with the
\* fixed parameters params, of which DOMAIN defaults are optional, and
\* with a trailing **kwargs when varkw: a TypeError for an argument the
\* signature has no place for or for a missing required one, else the
\* bound parameters and the kwargs dict.
PyCall(params, defaults, varkw, kw) ==
    IF ~varkw /\ \E n \in DOMAIN kw : n \notin params THEN Raise("TypeError")
    ELSE IF \E n \in params \ DOMAIN defaults : n \notin DOMAIN kw THEN Raise("TypeError")
    ELSE Ok([bound |-> [n \in params |-> IF n \in DOMAIN kw THEN kw[n] ELSE defaults[n]],
             kwargs |-> [n \in DOMAIN kw \ params |-> kw[n]]])

NoDefaults == [n \in {} |-> 0]

\* the object __init__ leaves behind: one attribute per fixed parameter,
\* then setattr(self, key, kwargs[key]) for every key of kwargs
NewObject(cls, call) ==
    IF call.ok
    THEN Ok([kind |-> cls, attrs |-> call.val.kwargs @@ call.val.bound])
    ELSE call

FeedInfo_params == {"feed_id"}
FeedInfo_init(kw) == NewObject("FeedInfo", PyCall(FeedInfo_params, NoDefaults, FALSE, kw))

Agency_params == {"feed_id", "agency_id", "agency_name", "agency_url", "agency_timezone"}
Agency_init(kw) == NewObject("Agency", PyCall(Agency_params, NoDefaults, TRUE, kw))

TYPE_STOP == 0
WHEELCHAIR_UNKNOWN == 0
Stop_params ==
    {"feed_id", "stop_id", "stop_name", "stop_lat", "stop_lon",
     "location_type", "parent_station_id", "wheelchair_boarding"}
Stop_defaults ==
    [n \in {"location_type", "parent_station_id", "wheelchair_boarding"} |->
        IF n = "location_type" THEN TYPE_STOP
        ELSE IF n = "wheelchair_boarding" THEN WHEELCHAIR_UNKNOWN
        ELSE None]
Stop_init(kw) == NewObject("Stop", PyCall(Stop_params, Stop_defaults, TRUE, kw))

Route_params == {"feed_id", "route_id", "agency_id", "route_type"}
Route_init(kw) == NewObject("Route", PyCall(Route_params, NoDefaults, TRUE, kw))

Calendar_params == {"feed_id", "service_id"}
Calendar_init(kw) == NewObject("Calendar", PyCall(Calendar_params, NoDefaults, FALSE, kw))

BIKES_UNKNOWN == 0
TIME_EXACT == 1
Trip_params ==
    {"feed_id", "trip_id", "route_id", "service_id",
     "wheelchair_accessible", "bikes_allowed", "exact_times"}
Trip_defaults ==
    [n \in {"wheelchair_accessible", "bikes_allowed", "exact_times"} |->
        IF n = "wheelchair_accessible" THEN WHEELCHAIR_UNKNOWN
        ELSE IF n = "bikes_allowed" THEN BIKES_UNKNOWN
        ELSE TIME_EXACT]
Trip_init(kw) == NewObject("Trip", PyCall(Trip_params, Trip_defaults, TRUE, kw))

PICKUP_DROPOFF_REGULAR == 0
TIMEPOINT_EXACT == 1
StopTime_params ==
    {"feed_id", "trip_id", "stop_id", "stop_sequence", "arrival_time",
     "departure_time", "shape_dist_traveled", "interpolated", "timepoint",
     "pickup_type", "dropoff_type"}
StopTime_defaults ==
    [n \in {"interpolated", "timepoint", "pickup_type", "dropoff_type"} |->
        IF n = "interpolated" THEN 0    \* False, which is the integer 0
        ELSE IF n = "timepoint" THEN TIMEPOINT_EXACT
        ELSE PICKUP_DROPOFF_REGULAR]
StopTime_init(kw) == NewObject("StopTime", PyCall(StopTime_params, StopTime_defaults, TRUE, kw))

-----------------------------------------------------------------------------
(* StopTime ordering and identity *)

\* _generic_eq(a_ids, b_ids): the first differing pair decides
RECURSIVE generic_eq(_, _)
generic_eq(a_ids, b_ids) ==
    IF a_ids = <<>> \/ b_ids = <<>> THEN TRUE
    ELSE IF Head(a_ids) # Head(b_ids) THEN FALSE
    ELSE generic_eq(Tail(a_ids), Tail(b_ids))

\* int.__hash__ of a small non-negative integer is the integer
IdHash(myid) == myid

\* _generic_hash(ids)
RECURSIVE generic_hash_from(_, _)
generic_hash_from(h, ids) ==
    IF ids = <<>> THEN h
    ELSE generic_hash_from((h + IdHash(Head(ids))) * 97, Tail(ids))

generic_hash(ids) == generic_hash_from(0, ids)

\* a primary key that leaves the stop out
primary_keysWithoutStop(self) ==
    <<self.attrs["feed_id"], self.attrs["trip_id"], self.attrs["stop_sequence"]>>

\* StopTime._primary_keys
primary_keys(self) ==
    <<self.attrs["feed_id"], self.attrs["trip_id"],
      self.attrs["stop_id"], self.attrs["stop_sequence"]>>

\* StopTime.__lt__: other.stop_sequence is an AttributeError on None
StopTime_lt(self, other) ==
    IF other.kind = "None" THEN Raise("AttributeError")
    ELSE Ok(self.attrs["stop_sequence"] < other.attrs["stop_sequence"])

\* StopTime.__eq__
StopTime_eq(self, other) ==
    IF other.kind # "StopTime" THEN Ok(FALSE)
    ELSE Ok(generic_eq(primary_keys(self), primary_keys(other)))

\* StopTime.__hash__
StopTime_hash(self) == generic_hash(primary_keys(self))

\* the operators functools.total_ordering derives from __lt__ and __eq__:
\*   a <= b is (a < b) or (a == b)
\*   a >  b is not (a < b) and (a != b)
\*   a >= b is not (a < b)
\* a != b being the default inversion of __eq__
StopTime_le(self, other) ==
    LET l == StopTime_lt(self, other)
    IN  IF ~l.ok THEN l ELSE Ok(l.val \/ StopTime_eq(self, other).val)

StopTime_gt(self, other) ==
    LET l == StopTime_lt(self, other)
    IN  IF ~l.ok THEN l ELSE Ok(~l.val /\ ~StopTime_eq(self, other).val)

StopTime_ge(self, other) ==
    LET l == StopTime_lt(self, other)
    IN  IF ~l.ok THEN l ELSE Ok(~l.val)

\* zip(a, b): pairs up to the end of the shorter list
Zip(a, b) ==
    [i \in 1..(IF Len(a) < Len(b) THEN Len(a) ELSE Len(b)) |-> <<a[i], b[i]>>]

\* s[i:] for i >= 0
SliceFrom(s, i) == SubSeq(s, i + 1, Len(s))

\* Trip.hops with both slices one element late
Trip_hopsFromSecond(self) ==
    IF "stop_times" \notin DOMAIN self.attrs THEN Raise("AttributeError")
    ELSE Ok(Zip(SliceFrom(self.attrs["stop_times"], 1),
                SliceFrom(self.attrs["stop_times"], 2)))

\* Trip.hops: zip(self.stop_times[0:], self.stop_times[1:]), consumed to
\* its end; stop_times is an attribute only once a loader has attached it
Trip_hops(self) ==
    IF "stop_times" \notin DOMAIN self.attrs THEN Raise("AttributeError")
    ELSE Ok(Zip(SliceFrom(self.attrs["stop_times"], 0),
                SliceFrom(self.attrs["stop_times"], 1)))

-----------------------------------------------------------------------------
(* Specification of StopTime ordering and identity *)

IdValues == {1, 2}

\* the arguments of a StopTime(...) call without extra fields
StopTimeArgs(f, t, s, q, arr) ==
    [n \in {"feed_id", "trip_id", "stop_id", "stop_sequence", "arrival_time",
            "departure_time", "shape_dist_traveled"} |->
        IF n = "feed_id" THEN f
        ELSE IF n = "trip_id" THEN t
        ELSE IF n = "stop_id" THEN s
        ELSE IF n = "stop_sequence" THEN q
        ELSE IF n = "arrival_time" THEN arr
        ELSE IF n = "departure_time" THEN arr
        ELSE 0]

StopTimes ==
    { StopTime_init(StopTimeArgs(f, t, s, q, arr)).val :
        f \in IdValues, t \in IdValues, s \in IdValues, q \in IdValues,
        arr \in IdValues }

InitStopTime == InitDate

\* a = StopTime(...)
ConstructStopTimeA ==
    /\ \E st \in StopTimes : stA' = st
    /\ stOp' = None
    /\ UNCHANGED <<gens, cdA, cdB, cdOp, stB, trip, hopsOut, ctor>>

\* b = StopTime(...)
ConstructStopTimeB ==
    /\ \E st \in StopTimes : stB' = st
    /\ stOp' = None
    /\ UNCHANGED <<gens, cdA, cdB, cdOp, stA, trip, hopsOut, ctor>>

ApplyStopTimeOp(op, self, other) ==
    IF op = "lt" THEN StopTime_lt(self, other)
    ELSE IF op = "le" THEN StopTime_le(self, other)
    ELSE IF op = "gt" THEN StopTime_gt(self, other)
    ELSE IF op = "ge" THEN StopTime_ge(self, other)
    ELSE StopTime_eq(self, other)

\* a < b, a <= b, a > b, a >= b, a == b; b may still be None
CompareStopTimes ==
    /\ stA.kind = "StopTime"
    /\ \E op \in {"lt", "le", "gt", "ge", "eq"} :
          stOp' = [kind |-> "op", op |-> op, self |-> stA, other |-> stB,
                   res |-> ApplyStopTimeOp(op, stA, stB)]
    /\ UNCHANGED <<gens, cdA, cdB, cdOp, stA, stB, trip, hopsOut, ctor>>

\* hash(a), hash(b)
HashStopTimes ==
    /\ stA.kind = "StopTime" /\ stB.kind = "StopTime"
    /\ stOp' = [kind |-> "op", op |-> "hash", self |-> stA, other |-> stB,
                res |-> Ok(<<StopTime_hash(stA), StopTime_hash(stB)>>)]
    /\ UNCHANGED <<gens, cdA, cdB, cdOp, stA, stB, trip, hopsOut, ctor>>

NextStopTime ==
    \/ ConstructStopTimeA
    \/ ConstructStopTimeB
    \/ CompareStopTimes
    \/ HashStopTimes

SpecStopTime == InitStopTime /\ [][NextStopTime]_vars

IntCompare(op, x, y) ==
    IF op = "lt" THEN x < y
    ELSE IF op = "le" THEN x <= y
    ELSE IF op = "gt" THEN x > y
    ELSE x >= y

\* C3: a < b, a <= b, a > b and a >= b on two StopTime values each return
\* what the operator returns on the integers a.stop_sequence and
\* b.stop_sequence.
C3_OrderingByStopSequenceOnly ==
    (stOp.kind = "None" \/ stOp.op \notin {"lt", "le", "gt", "ge"}
        \/ stOp.other.kind # "StopTime")
    \/ stOp.res = Ok(IntCompare(stOp.op, stOp.self.attrs["stop_sequence"],
                                stOp.other.attrs["stop_sequence"]))

SameKey(a, b) ==
    \A n \in {"feed_id", "trip_id", "stop_id", "stop_sequence"} :
        a.attrs[n] = b.attrs[n]

\* C4: a == b on two StopTime values holds exactly when they agree on
\* feed_id, trip_id, stop_id and stop_sequence, whatever their other
\* fields; values that agree on the four have the same hash.
C4_EqualityByFourKeys ==
    /\ (stOp.kind = "None" \/ stOp.op # "eq" \/ stOp.other.kind # "StopTime")
          \/ stOp.res = Ok(SameKey(stOp.self, stOp.other))
    /\ (stOp.kind = "None" \/ stOp.op # "hash")
          \/ (SameKey(stOp.self, stOp.other) => stOp.res.val[1] = stOp.res.val[2])

\* C4 witness: a == b answered False for two values that differ in
\* stop_id alone
C4_Witness ==
    /\ stOp.kind # "None"
    /\ stOp.op = "eq"
    /\ stOp.other.kind = "StopTime"
    /\ stOp.self.attrs["stop_id"] # stOp.other.attrs["stop_id"]
    /\ \A n \in {"feed_id", "trip_id", "stop_sequence", "arrival_time"} :
          stOp.self.attrs[n] = stOp.other.attrs[n]
    /\ stOp.res = Ok(FALSE)

-----------------------------------------------------------------------------
(* Specification of Trip.hops *)

\* the StopTime values a loader attaches to the trip: one per stop
\* sequence number 1..MaxStops + 1 of trip 1, each at its own stop
TripStopTimes ==
    { StopTime_init(StopTimeArgs(1, 1, q, q, q)).val : q \in 1..(MaxStops + 1) }

RECURSIVE SeqsUpTo(_, _)
SeqsUpTo(S, n) ==
    IF n = 0 THEN { <<>> }
    ELSE LET shorter == SeqsUpTo(S, n - 1)
         IN  shorter \cup { Append(s, x) : s \in shorter, x \in S }

TripArgs ==
    [n \in {"feed_id", "trip_id", "route_id", "service_id"} |-> 1]

\* trip = Trip(feed_id, trip_id, route_id, service_id)
ConstructTrip ==
    /\ trip' = Trip_init(TripArgs).val
    /\ hopsOut' = None
    /\ UNCHANGED <<gens, cdA, cdB, cdOp, stA, stB, stOp, ctor>>

\* trip.stop_times = [...], by the loader; the list is left in the order
\* given (nothing here sorts it)
AttachStopTimes ==
    /\ trip.kind = "Trip"
    /\ \E s \in SeqsUpTo(TripStopTimes, MaxStops) :
          trip' = [trip EXCEPT !.attrs = [n \in {"stop_times"} |-> s] @@ @]
    /\ hopsOut' = None
    /\ UNCHANGED <<gens, cdA, cdB, cdOp, stA, stB, stOp, ctor>>

\* list(trip.hops())
Hops ==
    /\ trip.kind = "Trip"
    /\ hopsOut' = [kind |-> "hops",
                   of |-> IF "stop_times" \in DOMAIN trip.attrs
                          THEN trip.attrs["stop_times"] ELSE <<>>,
                   res |-> Trip_hops(trip)]
    /\ UNCHANGED <<gens, cdA, cdB, cdOp, stA, stB, stOp, trip, ctor>>

NextTrip == ConstructTrip \/ AttachStopTimes \/ Hops

SpecTrip == InitDate /\ [][NextTrip]_vars

\* C5: hops() on a trip with stop_times s of length n yields the n-1 pairs
\* (s[i], s[i+1]) in order, none when n is 0 or 1, and stop_times is what
\* it was when hops() was called.
C5_HopsPairsConsecutiveStopTimes ==
    (hopsOut.kind = "None" \/ "stop_times" \notin DOMAIN trip.attrs)
    \/ LET s == trip.attrs["stop_times"]
           n == Len(s)
       IN  /\ hopsOut.res.ok
           /\ Len(hopsOut.res.val) = (IF n >= 1 THEN n - 1 ELSE 0)
           /\ \A i \in 1..Len(hopsOut.res.val) :
                 /\ hopsOut.res.val[i][1] = s[i]
                 /\ hopsOut.res.val[i][2] = s[i + 1]
           /\ s = hopsOut.of

\* C5 witness: hops() of three stop times st1, st2, st3 gave the two
\* pairs (st1, st2), (st2, st3)
C5_Witness ==
    /\ hopsOut.kind = "hops"
    /\ hopsOut.res.ok
    /\ Len(hopsOut.res.val) = 2
    /\ Len(trip.attrs["stop_times"]) = 3
    /\ hopsOut.res.val[1][1].attrs["stop_sequence"] = 1
    /\ hopsOut.res.val[1][2].attrs["stop_sequence"] = 2
    /\ hopsOut.res.val[2][1].attrs["stop_sequence"] = 2
    /\ hopsOut.res.val[2][2].attrs["stop_sequence"] = 3

-----------------------------------------------------------------------------
(* Specification of the entity constructors *)

Classes == {"FeedInfo", "Agency", "Stop", "Route", "Calendar", "Trip", "StopTime"}

RequiredOf(cls) ==
    IF cls = "FeedInfo" THEN FeedInfo_params
    ELSE IF cls = "Agency" THEN Agency_params
    ELSE IF cls = "Stop" THEN Stop_params \ DOMAIN Stop_defaults
    ELSE IF cls = "Route" THEN Route_params
    ELSE IF cls = "Calendar" THEN Calendar_params
    ELSE IF cls = "Trip" THEN Trip_params \ DOMAIN Trip_defaults
    ELSE StopTime_params \ DOMAIN StopTime_defaults

Init_of(cls, kw) ==
    IF cls = "FeedInfo" THEN FeedInfo_init(kw)
    ELSE IF cls = "Agency" THEN Agency_init(kw)
    ELSE IF cls = "Stop" THEN Stop_init(kw)
    ELSE IF cls = "Route" THEN Route_init(kw)
    ELSE IF cls = "Calendar" THEN Calendar_init(kw)
    ELSE IF cls = "Trip" THEN Trip_init(kw)
    ELSE StopTime_init(kw)

\* names no constructor has a parameter for
ExtraNames == {"x_note", "x_zone"}
ExtraValues == {7, 8}

\* the extra named fields of a call: any of the names, each with a value
ExtraArgs == UNION { [names -> ExtraValues] : names \in SUBSET ExtraNames }

\* obj = cls(<required fields>, **extra)
Construct ==
    /\ \E cls \in Classes, v \in IdValues, extra \in ExtraArgs :
          LET kw == extra @@ [n \in RequiredOf(cls) |-> v]
          IN  ctor' = [kind |-> "ctor", cls |-> cls, required |-> RequiredOf(cls),
                       kw |-> kw, res |-> Init_of(cls, kw)]
    /\ UNCHANGED <<gens, cdA, cdB, cdOp, stA, stB, stOp, trip, hopsOut>>

NextCtor == Construct

SpecCtor == InitDate /\ [][NextCtor]_vars

\* C9: constructing any of FeedInfo, Agency, Stop, Route, Calendar, Trip,
\* StopTime with its required fields plus extra unrecognized named fields
\* succeeds, and every field given, extra or fixed, is then an attribute
\* holding the value given.
C9_ExtraFieldsStoredAsAttributes ==
    ctor.kind = "None"
    \/ /\ ctor.res.ok
       /\ \A n \in DOMAIN ctor.kw :
             /\ n \in DOMAIN ctor.res.val.attrs
             /\ ctor.res.val.attrs[n] = ctor.kw[n]

====
